---- MODULE Spec2Model ----
(***************************************************************************)
(* Model of Create_kg.py: a batch loader that reads four tables and        *)
(* upserts them into a property graph through a fixed sequence of write    *)
(* transactions.  The graph is a multigraph: every relationship type is a  *)
(* bag of edges, so that MERGE (match-or-create) differs from CREATE.      *)
(***************************************************************************)
EXTENDS Bags, FiniteSets, Integers, Sequences, TLC

VARIABLES
    users_df,     \* users.csv as a sequence of rows
    hotels_df,    \* hotels.csv
    reviews_df,   \* reviews.csv
    visa_df,      \* visa.csv
    graph,        \* the database: node maps per label, edge bags per type
    pc,           \* position of main
    run,          \* number of the current invocation of main
    printed,      \* "KG created successfully." was printed by this invocation
    trace,        \* the execute_write calls issued by this invocation, in order
    same,         \* this invocation read the tables the previous one read
    last_done,    \* whether the previous invocation completed, and its final graph
    x,            \* argument of a stand-alone to_bool call
    result        \* its return value

vars == <<users_df, hotels_df, reviews_df, visa_df, graph, pc, run, printed,
          trace, same, last_done, x, result>>

(***************************************************************************)
(* Bounds                                                                  *)
(***************************************************************************)
MaxRows == 2
MaxRuns == 2
MaxLen == 4

(***************************************************************************)
(* Values of table cells                                                   *)
(***************************************************************************)
\* a missing cell of a name column (pandas NaN)
NaN == "NaN"

\* cells handed to to_bool keep their Python type
StrCell(s) == [kind |-> "str", val |-> s]
IntCell(i) == [kind |-> "int", val |-> i]
FloatCell(i) == [kind |-> "float", val |-> i]
BoolCell(b) == [kind |-> "bool", val |-> b]
NaNCell == [kind |-> "nan", val |-> 0]

isna(c) == c.kind = "nan"

Digit(i) == IF i = 0 THEN "0" ELSE "1"

\* str(x)
str(c) ==
    CASE c.kind = "str" -> c.val
      [] c.kind = "int" -> <<Digit(c.val)>>
      [] c.kind = "float" -> <<Digit(c.val), ".", "0">>
      [] c.kind = "bool" -> IF c.val THEN <<"T", "r", "u", "e">>
                                      ELSE <<"F", "a", "l", "s", "e">>
      [] OTHER -> <<"n", "a", "n">>

Whitespace == {" ", "\t", "\n", "\r"}

RECURSIVE lstrip(_)
lstrip(s) ==
    IF s # <<>> /\ Head(s) \in Whitespace THEN lstrip(Tail(s)) ELSE s

RECURSIVE rstrip(_)
rstrip(s) ==
    IF s # <<>> /\ s[Len(s)] \in Whitespace
    THEN rstrip(SubSeq(s, 1, Len(s) - 1))
    ELSE s

\* str.strip()
strip(s) == rstrip(lstrip(s))

UpperCase == <<"A", "B", "C", "D", "E", "F", "G", "H", "I", "J", "K", "L", "M",
               "N", "O", "P", "Q", "R", "S", "T", "U", "V", "W", "X", "Y", "Z">>
LowerCase == <<"a", "b", "c", "d", "e", "f", "g", "h", "i", "j", "k", "l", "m",
               "n", "o", "p", "q", "r", "s", "t", "u", "v", "w", "x", "y", "z">>

lowerChar(c) ==
    IF \E i \in 1..26 : UpperCase[i] = c
    THEN LowerCase[CHOOSE i \in 1..26 : UpperCase[i] = c]
    ELSE c

\* str.lower()
lower(s) == [i \in 1..Len(s) |-> lowerChar(s[i])]

Truthy == {<<"y", "e", "s">>, <<"t", "r", "u", "e">>, <<"1">>, <<"y">>}

\* to_bool without the call of lower()
to_bool_nolower(c) ==
    IF isna(c) THEN FALSE ELSE strip(str(c)) \in Truthy

to_bool(c) ==
    IF isna(c) THEN FALSE ELSE lower(strip(str(c))) \in Truthy

(***************************************************************************)
(* The property graph                                                      *)
(***************************************************************************)
EmptyProps == [p \in {} |-> 0]

\* SET n.k = v
SetProp(props, k, v) ==
    [p \in DOMAIN props \cup {k} |-> IF p = k THEN v ELSE props[p]]

\* a node is referred to by its label and key; an edge is <<from, to, props>>
Node(label, key) == <<label, key>>

EmptyGraph ==
    [Traveller |-> EmptyProps, Hotel |-> EmptyProps, Review |-> EmptyProps,
     City |-> EmptyProps, Country |-> EmptyProps, constraints |-> {},
     LOCATED_IN |-> EmptyBag, FROM_COUNTRY |-> EmptyBag, WROTE |-> EmptyBag,
     REVIEWED |-> EmptyBag, STAYED_AT |-> EmptyBag, NEEDS_VISA |-> EmptyBag]

\* MATCH (n:label {key: k}); a missing key (NaN) equals nothing
Matches(g, label, k) == k # NaN /\ k \in DOMAIN g[label]

\* MERGE (n:label {key: k}): the node is created when no node matches
MergeNode(g, label, k) ==
    IF k \in DOMAIN g[label]
    THEN g
    ELSE [g EXCEPT ![label] =
            [n \in DOMAIN g[label] \cup {k} |->
                IF n = k THEN EmptyProps ELSE g[label][n]]]

\* SET on the node merged or matched by key k
SetNodeProp(g, label, k, prop, v) ==
    [g EXCEPT ![label][k] = SetProp(g[label][k], prop, v)]

\* the edges of a type between two nodes
Between(g, type, a, b) ==
    {e \in BagToSet(g[type]) : e[1] = a /\ e[2] = b}

\* MergeRel as CREATE (a)-[:type]->(b): an edge is created every time
CreateRel(g, type, a, b) ==
    [g EXCEPT ![type] = g[type] (+) SetToBag({<<a, b, EmptyProps>>})]

\* MERGE (a)-[:type]->(b): an edge is created when none matches
MergeRel(g, type, a, b) ==
    IF Between(g, type, a, b) # {}
    THEN g
    ELSE [g EXCEPT ![type] = g[type] (+) SetToBag({<<a, b, EmptyProps>>})]

RECURSIVE SumCopies(_, _)
SumCopies(bag, S) ==
    IF S = {} THEN 0
    ELSE LET e == CHOOSE e \in S : TRUE
         IN bag[e] + SumCopies(bag, S \ {e})

\* SET v.prop = val on every edge of the type between a and b
SetRelProp(g, type, a, b, prop, val) ==
    LET old == BagToSet(g[type])
        img(e) == IF e[1] = a /\ e[2] = b
                  THEN <<e[1], e[2], SetProp(e[3], prop, val)>>
                  ELSE e
        new == {img(e) : e \in old}
    IN [g EXCEPT ![type] =
            [t \in new |-> SumCopies(g[type], {e \in old : img(e) = t})]]

(***************************************************************************)
(* The write transactions                                                  *)
(***************************************************************************)
\* TravellerClause with ON CREATE SET: a matched node keeps its attributes
TravellerClauseFirstWins(g, row) ==
    IF row.user_id \in DOMAIN g.Traveller THEN g
    ELSE LET g1 == MergeNode(g, "Traveller", row.user_id)
             g2 == SetNodeProp(g1, "Traveller", row.user_id, "age", row.age_group)
             g3 == SetNodeProp(g2, "Traveller", row.user_id, "type", row.traveller_type)
         IN SetNodeProp(g3, "Traveller", row.user_id, "gender", row.user_gender)

TravellerClause(g, row) ==
    LET g1 == MergeNode(g, "Traveller", row.user_id)
        g2 == SetNodeProp(g1, "Traveller", row.user_id, "age", row.age_group)
        g3 == SetNodeProp(g2, "Traveller", row.user_id, "type", row.traveller_type)
    IN SetNodeProp(g3, "Traveller", row.user_id, "gender", row.user_gender)

HotelClause(g, row) ==
    LET g1 == MergeNode(g, "Hotel", row.hotel_id)
        g2 == SetNodeProp(g1, "Hotel", row.hotel_id, "name", row.hotel_name)
        g3 == SetNodeProp(g2, "Hotel", row.hotel_id, "star_rating", row.star_rating)
        g4 == SetNodeProp(g3, "Hotel", row.hotel_id, "cleanliness_base",
                          row.cleanliness_base)
        g5 == SetNodeProp(g4, "Hotel", row.hotel_id, "comfort_base", row.comfort_base)
    IN SetNodeProp(g5, "Hotel", row.hotel_id, "facilities_base", row.facilities_base)

\* a column of a table
Column(df, col) == [i \in 1..Len(df) |-> df[i][col]]

\* Series.dropna()
RECURSIVE dropna(_)
dropna(s) ==
    IF s = <<>> THEN <<>>
    ELSE IF Head(s) = NaN THEN dropna(Tail(s))
    ELSE <<Head(s)>> \o dropna(Tail(s))

\* Series.unique(): the values in order of first appearance
RECURSIVE unique(_)
unique(s) ==
    IF s = <<>> THEN <<>>
    ELSE LET init == unique(SubSeq(s, 1, Len(s) - 1))
             last == s[Len(s)]
         IN IF \E i \in 1..Len(init) : init[i] = last
            THEN init ELSE Append(init, last)

CountryClause(g, name) == MergeNode(g, "Country", name)

CityClause(g, name) == MergeNode(g, "City", name)

HotelCityClause(g, row) ==
    IF Matches(g, "Hotel", row.hotel_id) /\ Matches(g, "City", row.city)
    THEN MergeRel(g, "LOCATED_IN", Node("Hotel", row.hotel_id), Node("City", row.city))
    ELSE g

CityCountryClause(g, row) ==
    IF Matches(g, "City", row.city) /\ Matches(g, "Country", row.country)
    THEN MergeRel(g, "LOCATED_IN", Node("City", row.city),
                  Node("Country", row.country))
    ELSE g

FromCountryClause(g, row) ==
    IF Matches(g, "Traveller", row.user_id) /\ Matches(g, "Country", row.country)
    THEN MergeRel(g, "FROM_COUNTRY", Node("Traveller", row.user_id),
                  Node("Country", row.country))
    ELSE g

\* countries without the travellers' column
countries_hotels_only(hotels, users) == unique(dropna(Column(hotels, "country")))

\* the Country names of load_cities_countries
countries(hotels, users) ==
    unique(dropna(Column(hotels, "country") \o Column(users, "country")))

\* the City names of load_cities_countries
cities(hotels) == unique(dropna(Column(hotels, "city")))

ReviewClause(g, row) ==
    LET id == row.review_id
        g1 == MergeNode(g, "Review", id)
        g2 == SetNodeProp(g1, "Review", id, "text", row.review_text)
        g3 == SetNodeProp(g2, "Review", id, "date", row.review_date)
        g4 == SetNodeProp(g3, "Review", id, "score_overall", row.score_overall)
        g5 == SetNodeProp(g4, "Review", id, "score_cleanliness", row.score_cleanliness)
        g6 == SetNodeProp(g5, "Review", id, "score_comfort", row.score_comfort)
        g7 == SetNodeProp(g6, "Review", id, "score_facilities", row.score_facilities)
        g8 == SetNodeProp(g7, "Review", id, "score_location", row.score_location)
        g9 == SetNodeProp(g8, "Review", id, "score_staff", row.score_staff)
    IN SetNodeProp(g9, "Review", id, "score_value_for_money",
                   row.score_value_for_money)

WroteClause(g, row) ==
    IF Matches(g, "Traveller", row.user_id) /\ Matches(g, "Review", row.review_id)
    THEN MergeRel(g, "WROTE", Node("Traveller", row.user_id),
                  Node("Review", row.review_id))
    ELSE g

ReviewedClause(g, row) ==
    IF Matches(g, "Review", row.review_id) /\ Matches(g, "Hotel", row.hotel_id)
    THEN MergeRel(g, "REVIEWED", Node("Review", row.review_id),
                  Node("Hotel", row.hotel_id))
    ELSE g

StayedAtClause(g, row) ==
    IF Matches(g, "Traveller", row.user_id) /\ Matches(g, "Hotel", row.hotel_id)
    THEN MergeRel(g, "STAYED_AT", Node("Traveller", row.user_id),
                  Node("Hotel", row.hotel_id))
    ELSE g

RECURSIVE GCD(_, _)
GCD(a, b) == IF b = 0 THEN a ELSE GCD(b, a % b)

\* a quotient of two naturals, in lowest terms
Quotient(n, d) == [num |-> n \div GCD(n, d), den |-> d \div GCD(n, d)]

\* the rows of MATCH (h:Hotel)<-[:REVIEWED]-(r:Review) for one hotel
ReviewedRows(g, h) ==
    {e \in BagToSet(g.REVIEWED) :
        /\ e[2] = Node("Hotel", h)
        /\ e[1][1] = "Review" /\ e[1][2] \in DOMAIN g.Review}

RECURSIVE SumScores(_, _)
SumScores(g, S) ==
    IF S = {} THEN 0
    ELSE LET e == CHOOSE e \in S : TRUE
         IN g.REVIEWED[e] * g.Review[e[1][2]].score_overall
                + SumScores(g, S \ {e})

\* avg without the grouping by hotel: the mean over all REVIEWED edges
avg_ungrouped(g, h) ==
    Quotient(SumScores(g, BagToSet(g.REVIEWED)),
             SumCopies(g.REVIEWED, BagToSet(g.REVIEWED)))

\* avg(r.score_overall) grouped by h
avg(g, h) ==
    Quotient(SumScores(g, ReviewedRows(g, h)),
             SumCopies(g.REVIEWED, ReviewedRows(g, h)))

RECURSIVE SetAverages(_, _)
SetAverages(g, hs) ==
    IF hs = {} THEN g
    ELSE LET h == CHOOSE h \in hs : TRUE
         IN SetAverages(
                IF ReviewedRows(g, h) = {} THEN g
                ELSE SetNodeProp(g, "Hotel", h, "average_reviews_score", avg(g, h)),
                hs \ {h})

set_average_reviews_score(g) == SetAverages(g, DOMAIN g.Hotel)

\* visa_df["requires_bool"] = visa_df["requires_visa"].apply(to_bool)
WithRequiresBool(row) ==
    [c \in DOMAIN row \cup {"requires_bool"} |->
        IF c = "requires_bool" THEN to_bool(row.requires_visa) ELSE row[c]]

\* VisaClause without the FOREACH condition on requires_bool
VisaClauseUnconditional(g, row) ==
    IF Matches(g, "Country", row.from) /\ Matches(g, "Country", row.to)
    THEN SetRelProp(MergeRel(g, "NEEDS_VISA", Node("Country", row.from),
                             Node("Country", row.to)),
                    "NEEDS_VISA", Node("Country", row.from),
                    Node("Country", row.to), "visa_type", row.visa_type)
    ELSE g

\* VisaClause deleting the edges of a pair whose row needs no visa
VisaClauseRevoking(g, row) ==
    IF Matches(g, "Country", row.from) /\ Matches(g, "Country", row.to)
    THEN IF row.requires_bool
         THEN SetRelProp(MergeRel(g, "NEEDS_VISA", Node("Country", row.from),
                                  Node("Country", row.to)),
                         "NEEDS_VISA", Node("Country", row.from),
                         Node("Country", row.to), "visa_type", row.visa_type)
         ELSE [g EXCEPT !.NEEDS_VISA =
                 [e \in BagToSet(g.NEEDS_VISA)
                        \ Between(g, "NEEDS_VISA", Node("Country", row.from),
                                   Node("Country", row.to)) |-> g.NEEDS_VISA[e]]]
    ELSE g

VisaClause(g, row) ==
    IF Matches(g, "Country", row.from) /\ Matches(g, "Country", row.to)
    THEN IF row.requires_bool
         THEN SetRelProp(MergeRel(g, "NEEDS_VISA", Node("Country", row.from),
                                  Node("Country", row.to)),
                         "NEEDS_VISA", Node("Country", row.from),
                         Node("Country", row.to), "visa_type", row.visa_type)
         ELSE g
    ELSE g

\* the clause a query applies to each row
Clause(query, g, row) ==
    CASE query = "Traveller" -> TravellerClause(g, row)
      [] query = "Hotel" -> HotelClause(g, row)
      [] query = "Country" -> CountryClause(g, row)
      [] query = "City" -> CityClause(g, row)
      [] query = "HotelCity" -> HotelCityClause(g, row)
      [] query = "CityCountry" -> CityCountryClause(g, row)
      [] query = "FromCountry" -> FromCountryClause(g, row)
      [] query = "Review" -> ReviewClause(g, row)
      [] query = "Wrote" -> WroteClause(g, row)
      [] query = "Reviewed" -> ReviewedClause(g, row)
      [] query = "StayedAt" -> StayedAtClause(g, row)
      [] query = "Visa" -> VisaClause(g, row)

\* UNWIND $rows AS row: the clause is applied to the rows in order
RECURSIVE Unwind(_, _, _)
Unwind(query, g, rows) ==
    IF rows = <<>> THEN g
    ELSE Unwind(query, Clause(query, g, Head(rows)), Tail(rows))

load_travellers(g, users) == Unwind("Traveller", g, users)

load_hotels(g, hotels) == Unwind("Hotel", g, hotels)

load_cities_countries(g, hotels, users) ==
    LET g1 == Unwind("Country", g, countries(hotels, users))
        g2 == Unwind("City", g1, cities(hotels))
        g3 == Unwind("HotelCity", g2, hotels)
        g4 == Unwind("CityCountry", g3, hotels)
    IN Unwind("FromCountry", g4, users)

\* load_reviews_and_edges without the STAYED_AT query
load_reviews_without_stayed_at(g, reviews) ==
    LET g1 == Unwind("Review", g, reviews)
        g2 == Unwind("Wrote", g1, reviews)
    IN Unwind("Reviewed", g2, reviews)

\* load_reviews_and_edges without the WROTE query
load_reviews_without_wrote(g, reviews) ==
    LET g1 == Unwind("Review", g, reviews)
        g3 == Unwind("Reviewed", g1, reviews)
    IN Unwind("StayedAt", g3, reviews)

load_reviews_and_edges(g, reviews) ==
    LET g1 == Unwind("Review", g, reviews)
        g2 == Unwind("Wrote", g1, reviews)
        g3 == Unwind("Reviewed", g2, reviews)
    IN Unwind("StayedAt", g3, reviews)

load_visa_edges(g, visa) ==
    Unwind("Visa", g, [i \in 1..Len(visa) |-> WithRequiresBool(visa[i])])

\* CREATE CONSTRAINT IF NOT EXISTS ... REQUIRE key IS UNIQUE, for the five labels
create_constraints(g) ==
    [g EXCEPT !.constraints =
        @ \cup {<<"Traveller", "user_id">>, <<"Hotel", "hotel_id">>,
                <<"Review", "review_id">>, <<"City", "name">>,
                <<"Country", "name">>}]

(***************************************************************************)
(* main                                                                    *)
(***************************************************************************)
StepOrder ==
    <<"create_constraints", "load_travellers", "load_hotels",
      "load_cities_countries", "load_reviews_and_edges",
      "set_average_reviews_score", "load_visa_edges">>

Steps == {StepOrder[i] : i \in 1..Len(StepOrder)}

\* the statement after the execute_write call named s
After(s) ==
    LET i == CHOOSE i \in 1..Len(StepOrder) : StepOrder[i] = s
    IN IF i = Len(StepOrder) THEN "close" ELSE StepOrder[i + 1]

\* what the transaction function named s does to the graph
Apply(s, g) ==
    CASE s = "create_constraints" -> create_constraints(g)
      [] s = "load_travellers" -> load_travellers(g, users_df)
      [] s = "load_hotels" -> load_hotels(g, hotels_df)
      [] s = "load_cities_countries" -> load_cities_countries(g, hotels_df, users_df)
      [] s = "load_reviews_and_edges" -> load_reviews_and_edges(g, reviews_df)
      [] s = "set_average_reviews_score" -> set_average_reviews_score(g)
      [] s = "load_visa_edges" -> load_visa_edges(g, visa_df)

\* read_config and the four read_csv calls
main_read ==
    /\ pc = "main"
    /\ pc' = "create_constraints"
    /\ UNCHANGED <<users_df, hotels_df, reviews_df, visa_df, graph, run, printed,
                   trace, same, last_done, x, result>>

\* a missing config key or file: main raises before the driver is created
main_read_fails ==
    /\ pc = "main"
    /\ pc' = "failed"
    /\ UNCHANGED <<users_df, hotels_df, reviews_df, visa_df, graph, run, printed,
                   trace, same, last_done, x, result>>

\* session.execute_write(f, ...) returns: the transaction is committed
execute_write ==
    /\ pc \in Steps
    /\ graph' = Apply(pc, graph)
    /\ trace' = Append(trace, [call |-> pc, raised |-> FALSE])
    /\ pc' = After(pc)
    /\ UNCHANGED <<users_df, hotels_df, reviews_df, visa_df, run, printed, same,
                   last_done, x, result>>

\* execute_write_raises with the exception caught: main goes on
execute_write_raises_caught ==
    /\ pc \in Steps
    /\ trace' = Append(trace, [call |-> pc, raised |-> TRUE])
    /\ pc' = After(pc)
    /\ UNCHANGED <<users_df, hotels_df, reviews_df, visa_df, graph, run, printed,
                   same, last_done, x, result>>

\* session.execute_write(f, ...) raises: the transaction is rolled back and
\* the exception leaves main
execute_write_raises ==
    /\ pc \in Steps
    /\ trace' = Append(trace, [call |-> pc, raised |-> TRUE])
    /\ pc' = "failed"
    /\ UNCHANGED <<users_df, hotels_df, reviews_df, visa_df, graph, run, printed,
                   same, last_done, x, result>>

\* driver.close() and the completion message
main_close ==
    /\ pc = "close"
    /\ printed' = TRUE
    /\ pc' = "done"
    /\ UNCHANGED <<users_df, hotels_df, reviews_df, visa_df, graph, run, trace,
                   same, last_done, x, result>>

\* the files hold the tables of the dataset d
Files(d) ==
    /\ users_df = d.users /\ hotels_df = d.hotels
    /\ reviews_df = d.reviews /\ visa_df = d.visa

\* the script is run again, on the same files or on files changed to a
\* dataset of Changed
invoke(Changed) ==
    /\ pc \in {"done", "failed"}
    /\ run < MaxRuns
    /\ run' = run + 1
    /\ pc' = "main"
    /\ printed' = FALSE
    /\ trace' = <<>>
    /\ last_done' = [ok |-> pc = "done", graph |-> graph]
    /\ \/ /\ UNCHANGED <<users_df, hotels_df, reviews_df, visa_df>>
          /\ same' = TRUE
       \/ /\ \E d \in Changed :
                /\ users_df' = d.users /\ hotels_df' = d.hotels
                /\ reviews_df' = d.reviews /\ visa_df' = d.visa
          /\ same' = FALSE
    /\ UNCHANGED <<graph, x, result>>

\* a stand-alone call of to_bool
to_bool_call ==
    /\ pc = "to_bool"
    /\ result' = to_bool(x)
    /\ pc' = "returned"
    /\ UNCHANGED <<users_df, hotels_df, reviews_df, visa_df, graph, run, printed,
                   trace, same, last_done, x>>

\* the state before the first invocation, the files holding a dataset of In
InitMain(In) ==
    /\ \E d \in In : Files(d)
    /\ graph = EmptyGraph
    /\ pc = "main"
    /\ run = 1
    /\ printed = FALSE
    /\ trace = <<>>
    /\ same = FALSE
    /\ last_done = [ok |-> FALSE, graph |-> EmptyGraph]
    /\ x = NaNCell
    /\ result = FALSE

NextMain(Changed) ==
    \/ main_read
    \/ main_read_fails
    \/ execute_write
    \/ execute_write_raises
    \/ main_close
    \/ invoke(Changed)

(***************************************************************************)
(* Input tables                                                            *)
(***************************************************************************)
\* all tables of at most n rows drawn from a set of rows
Tables(rows, n) == UNION {[1..k -> rows] : k \in 0..n}

Profiles ==
    {[age_group |-> "25-34", traveller_type |-> "Solo", user_gender |-> "Female"],
     [age_group |-> "35-44", traveller_type |-> "Couple", user_gender |-> "Male"]}

UserRow(id, country, p) ==
    [user_id |-> id, user_gender |-> p.user_gender, country |-> country,
     age_group |-> p.age_group, traveller_type |-> p.traveller_type,
     join_date |-> "2020-01-01"]

HotelRow(id, city, country, stars) ==
    [hotel_id |-> id, hotel_name |-> "Hotel", city |-> city, country |-> country,
     star_rating |-> stars, lat |-> 30, lon |-> 31, cleanliness_base |-> 9,
     comfort_base |-> 8, facilities_base |-> 7, location_base |-> 6,
     staff_base |-> 5, value_for_money_base |-> 4]

ReviewRow(id, user, hotel, score) ==
    [review_id |-> id, user_id |-> user, hotel_id |-> hotel,
     review_date |-> "2021-01-01", score_overall |-> score,
     score_cleanliness |-> 9, score_comfort |-> 8, score_facilities |-> 7,
     score_location |-> 6, score_staff |-> 5, score_value_for_money |-> 4,
     review_text |-> "text"]

VisaRow(from, to, requires, type) ==
    [from |-> from, to |-> to, requires_visa |-> requires, visa_type |-> type]

Yes == StrCell(<<"Y", "e", "s">>)
No == StrCell(<<"N", "o">>)

Datasets(us, hs, rs, vs) ==
    {[users |-> u, hotels |-> h, reviews |-> r, visa |-> v] :
        u \in us, h \in hs, r \in rs, v \in vs}

U1 == UserRow("u1", "France", CHOOSE p \in Profiles : TRUE)
U2 == UserRow("u2", "Egypt", CHOOSE p \in Profiles : TRUE)
H1 == HotelRow("h1", "Cairo", "Egypt", 5)
H2 == HotelRow("h2", "Paris", "France", 4)
R1 == ReviewRow("r1", "u1", "h1", 4)
V1 == VisaRow("France", "Egypt", Yes, "eVisa")

\* travellers vary
UserRows ==
    {UserRow(id, c, p) : id \in {"u1", "u2"}, c \in {"Egypt", NaN}, p \in Profiles}
TravellerInputs ==
    Datasets(Tables(UserRows, MaxRows), {<<H1>>}, {<<R1>>}, {<<V1>>})
TravellerChanges == Datasets(Tables(UserRows, 1), {<<H1>>}, {<<R1>>}, {<<V1>>})

InitTravellers == InitMain(TravellerInputs)
NextTravellers == NextMain(TravellerChanges)
SpecTravellers == InitTravellers /\ [][NextTravellers]_vars

\* the name columns of hotels and travellers vary
GeoHotelRows ==
    {HotelRow("h1", city, c, 5) : city \in {"Cairo", NaN}, c \in {"Egypt", NaN}}
GeoUserRows ==
    {UserRow("u1", c, CHOOSE p \in Profiles : TRUE) : c \in {"Egypt", "Chad", NaN}}
GeographyInputs ==
    Datasets(Tables(GeoUserRows, MaxRows), Tables(GeoHotelRows, MaxRows),
             {<<R1>>}, {<<V1>>})
GeographyChanges ==
    Datasets({<<>>}, Tables(GeoHotelRows, 1), {<<R1>>}, {<<V1>>})

InitGeography == InitMain(GeographyInputs)
NextGeography == NextMain(GeographyChanges)
SpecGeography == InitGeography /\ [][NextGeography]_vars

\* reviews vary, over travellers and hotels that exist or are missing
ReviewRows ==
    {ReviewRow(id, w[1], w[2], s) :
        id \in {"r1", "r2"}, w \in {<<"u1", "h1">>, <<"u2", "h2">>}, s \in {3, 4}}
ReviewInputs ==
    Datasets({<<U1>>, <<U1, U2>>}, {<<H1, H2>>}, Tables(ReviewRows, MaxRows), {<<V1>>})
ReviewChanges ==
    Datasets({<<U1>>}, {<<H1>>}, Tables(ReviewRows, 1), {<<V1>>})

InitReviews == InitMain(ReviewInputs)
NextReviews == NextMain(ReviewChanges)
SpecReviews == InitReviews /\ [][NextReviews]_vars

\* visa rows vary; Chad is a country of no hotel and no traveller
VisaRows ==
    {VisaRow(f, "Egypt", r, t) :
        f \in {"France", "Chad"}, r \in {Yes, No, NaNCell}, t \in {"eVisa", "Embassy"}}
VisaInputs == Datasets({<<U1>>}, {<<H1>>}, {<<R1>>}, Tables(VisaRows, MaxRows))
VisaChanges == Datasets({<<U1>>}, {<<H1>>}, {<<R1>>}, Tables(VisaRows, 1))

InitVisa == InitMain(VisaInputs)
NextVisa == NextMain(VisaChanges)
SpecVisa == InitVisa /\ [][NextVisa]_vars

\* arguments of to_bool
Alphabet ==
    {"Y", "y", "E", "e", "s", "T", "t", "R", "r", "U", "u", "1", "N", "o", " "}
Strings == UNION {[1..n -> Alphabet] : n \in 0..MaxLen}
BoolInputs ==
    {StrCell(s) : s \in Strings}
        \cup {NaNCell, IntCell(0), IntCell(1), FloatCell(0), FloatCell(1),
              BoolCell(TRUE), BoolCell(FALSE)}

InitToBool ==
    /\ users_df = <<>> /\ hotels_df = <<>> /\ reviews_df = <<>> /\ visa_df = <<>>
    /\ graph = EmptyGraph
    /\ pc = "to_bool"
    /\ run = 1
    /\ printed = FALSE
    /\ trace = <<>>
    /\ same = FALSE
    /\ last_done = [ok |-> FALSE, graph |-> EmptyGraph]
    /\ x \in BoolInputs
    /\ result = FALSE

NextToBool == to_bool_call
SpecToBool == InitToBool /\ [][NextToBool]_vars

(***************************************************************************)
(* Vocabulary of the properties                                            *)
(***************************************************************************)
\* the execute_write call named s has returned in this invocation
Completed(s) ==
    \E i \in 1..Len(trace) : trace[i].call = s /\ ~trace[i].raised

\* the number of edges of a type from node a to node b
EdgeCount(g, type, a, b) ==
    SumCopies(g[type], {e \in DOMAIN g[type] : e[1] = a /\ e[2] = b})

HasEdge(type, a, b) == EdgeCount(graph, type, a, b) > 0

Travellers == DOMAIN graph.Traveller
Hotels == DOMAIN graph.Hotel
Reviews == DOMAIN graph.Review

(***************************************************************************)
(* C6: Traveller attributes after load_travellers                          *)
(***************************************************************************)
TravellerHasRow(row) ==
    /\ row.user_id \in Travellers
    /\ graph.Traveller[row.user_id] =
          [age |-> row.age_group, type |-> row.traveller_type,
           gender |-> row.user_gender]

\* C6 as stated: after load_travellers, every row of the travellers table,
\* rows sharing a user_id included, has a Traveller node with exactly that
\* row's attributes.
C6_EveryRow ==
    Completed("load_travellers") =>
        \A i \in 1..Len(users_df) : TravellerHasRow(users_df[i])

\* C6 amended: after load_travellers, the Traveller node of a user_id has
\* exactly the attributes of the last row of the table with that user_id.
C6_LastRow ==
    Completed("load_travellers") =>
        \A i \in 1..Len(users_df) :
            (\A j \in (i + 1)..Len(users_df) :
                users_df[j].user_id # users_df[i].user_id)
                => TravellerHasRow(users_df[i])

\* two rows share a user_id and differ, and the node carries the later one
C6_Witness ==
    /\ Completed("load_travellers")
    /\ Len(users_df) = 2
    /\ users_df[1].user_id = users_df[2].user_id
    /\ users_df[1].age_group # users_df[2].age_group
    /\ TravellerHasRow(users_df[2])

(***************************************************************************)
(* C5: Country and City nodes                                              *)
(***************************************************************************)
NamesIn(df, col) == {df[i][col] : i \in 1..Len(df)} \ {NaN}

C5_Sets ==
    (pc = "done" /\ run = 1) =>
        /\ DOMAIN graph.Country
              = NamesIn(hotels_df, "country") \cup NamesIn(users_df, "country")
        /\ DOMAIN graph.City = NamesIn(hotels_df, "city")

C5_Frame ==
    pc # "load_cities_countries" =>
        /\ DOMAIN graph'.Country = DOMAIN graph.Country
        /\ DOMAIN graph'.City = DOMAIN graph.City

\* C5: after a run on an empty graph the Country names are the non-null
\* values of the hotels and travellers country columns and the City names
\* the non-null values of the hotels city column; only the geography step
\* adds Country or City nodes.
C5_CountryCityNodes == [](C5_Sets) /\ [][C5_Frame]_vars

\* a country named only by a traveller, a missing city, and a completed run
C5_Witness ==
    /\ pc = "done" /\ run = 1
    /\ "Chad" \in DOMAIN graph.Country
    /\ "Chad" \notin NamesIn(hotels_df, "country")
    /\ \E i \in 1..Len(hotels_df) : hotels_df[i].city = NaN
    /\ "Cairo" \in DOMAIN graph.City

(***************************************************************************)
(* C2: the three edges of a review row                                     *)
(***************************************************************************)
Wrote(row) ==
    HasEdge("WROTE", Node("Traveller", row.user_id), Node("Review", row.review_id))
Reviewed(row) ==
    HasEdge("REVIEWED", Node("Review", row.review_id), Node("Hotel", row.hotel_id))
StayedAt(row) ==
    HasEdge("STAYED_AT", Node("Traveller", row.user_id), Node("Hotel", row.hotel_id))

\* C2 as stated: after a completed run every review row, rows of unknown
\* users or hotels included, has its WROTE, REVIEWED and STAYED_AT edges.
C2_EveryRow ==
    pc = "done" =>
        \A i \in 1..Len(reviews_df) :
            Wrote(reviews_df[i]) /\ Reviewed(reviews_df[i]) /\ StayedAt(reviews_df[i])

\* C2 amended: after a completed run a review row has its WROTE edge when
\* its user_id is a Traveller node, its REVIEWED edge when its hotel_id is a
\* Hotel node and its STAYED_AT edge when both are; an edge whose Traveller
\* or Hotel node is missing does not exist.
C2_RowsOfKnownNodes ==
    pc = "done" =>
        \A i \in 1..Len(reviews_df) :
            LET row == reviews_df[i]
            IN /\ row.review_id \in Reviews
               /\ Wrote(row) <=> row.user_id \in Travellers
               /\ Reviewed(row) <=> row.hotel_id \in Hotels
               /\ StayedAt(row) <=> (row.user_id \in Travellers
                                        /\ row.hotel_id \in Hotels)

\* a completed run with a row of known nodes and a row of an unknown user
C2_Witness ==
    /\ pc = "done"
    /\ \E i, j \in 1..Len(reviews_df) :
          /\ Wrote(reviews_df[i]) /\ Reviewed(reviews_df[i]) /\ StayedAt(reviews_df[i])
          /\ reviews_df[j].user_id \notin Travellers
          /\ Reviewed(reviews_df[j]) /\ ~Wrote(reviews_df[j])

(***************************************************************************)
(* C10: STAYED_AT against WROTE and REVIEWED                               *)
(***************************************************************************)
Derivable(t, h) ==
    \E r \in Reviews :
        /\ HasEdge("WROTE", Node("Traveller", t), Node("Review", r))
        /\ HasEdge("REVIEWED", Node("Review", r), Node("Hotel", h))

Stayed(t, h) == HasEdge("STAYED_AT", Node("Traveller", t), Node("Hotel", h))

\* C10 as stated: after a completed run a STAYED_AT edge t->h exists exactly
\* when some Review has a WROTE edge from t and a REVIEWED edge to h.
C10_Iff ==
    pc = "done" =>
        \A t \in Travellers, h \in Hotels : Stayed(t, h) <=> Derivable(t, h)

\* each review_id of the table has one user_id and one hotel_id
OnePairPerReview ==
    \A i, j \in 1..Len(reviews_df) :
        reviews_df[i].review_id = reviews_df[j].review_id
            => /\ reviews_df[i].user_id = reviews_df[j].user_id
               /\ reviews_df[i].hotel_id = reviews_df[j].hotel_id

\* C10 amended: after a completed run every STAYED_AT edge t->h has a Review
\* with a WROTE edge from t and a REVIEWED edge to h; the converse holds for a
\* first run on an empty graph whose reviews table gives each review_id one
\* user_id and one hotel_id.
C10_StayedIsDerivable ==
    pc = "done" =>
        /\ \A e \in DOMAIN graph.STAYED_AT :
              /\ e[1][1] = "Traveller" /\ e[1][2] \in Travellers
              /\ e[2][1] = "Hotel" /\ e[2][2] \in Hotels
              /\ Derivable(e[1][2], e[2][2])
        /\ (run = 1 /\ OnePairPerReview) =>
              \A t \in Travellers, h \in Hotels : Derivable(t, h) => Stayed(t, h)

\* one review_id in two rows of different users and hotels, all of them nodes
C10_Witness ==
    /\ pc = "done"
    /\ Len(reviews_df) = 2
    /\ reviews_df[1].review_id = reviews_df[2].review_id
    /\ reviews_df[1].user_id # reviews_df[2].user_id
    /\ StayedAt(reviews_df[1]) /\ StayedAt(reviews_df[2])
    /\ Derivable(reviews_df[1].user_id, reviews_df[2].hotel_id)

(***************************************************************************)
(* C4: average_reviews_score                                               *)
(***************************************************************************)
\* the Review nodes with a REVIEWED edge to the hotel
ReviewsOf(h) ==
    {r \in Reviews : HasEdge("REVIEWED", Node("Review", r), Node("Hotel", h))}

RECURSIVE Total(_)
Total(rs) ==
    IF rs = {} THEN 0
    ELSE LET r == CHOOSE r \in rs : TRUE
         IN graph.Review[r].score_overall + Total(rs \ {r})

HasAverage(h) == "average_reviews_score" \in DOMAIN graph.Hotel[h]

\* C4: after every completed run a Hotel with REVIEWED edges has the mean of
\* score_overall of exactly its reviewing Review nodes as
\* average_reviews_score, and a Hotel without them has no such attribute.
C4_AverageIsMean ==
    pc = "done" =>
        \A h \in Hotels :
            IF ReviewsOf(h) = {}
            THEN ~HasAverage(h)
            ELSE /\ HasAverage(h)
                 /\ graph.Hotel[h].average_reviews_score.den > 0
                 /\ graph.Hotel[h].average_reviews_score.num * Cardinality(ReviewsOf(h))
                      = graph.Hotel[h].average_reviews_score.den * Total(ReviewsOf(h))

\* a hotel with two reviews of different scores, another hotel with none, in
\* a later run that changed a score
C4_Witness ==
    /\ pc = "done" /\ run = 2 /\ ~same
    /\ \E h \in Hotels :
          /\ Cardinality(ReviewsOf(h)) = 2
          /\ \E r1, r2 \in ReviewsOf(h) :
                graph.Review[r1].score_overall # graph.Review[r2].score_overall
          /\ \E r \in ReviewsOf(h) :
                /\ r \in DOMAIN last_done.graph.Review
                /\ last_done.graph.Review[r].score_overall
                      # graph.Review[r].score_overall
    /\ \E h \in Hotels : ReviewsOf(h) = {}

(***************************************************************************)
(* C1: a second run on the same tables                                     *)
(***************************************************************************)
\* C1: a completed run on the tables of the completed run before it leaves
\* the graph as that run left it: nodes, attributes and edges.
C1_Idempotent ==
    (pc = "done" /\ same /\ last_done.ok) => graph = last_done.graph

\* the second run is over and the graph holds nodes, an average and edges
C1_Witness ==
    /\ pc = "done" /\ same /\ last_done.ok
    /\ Len(reviews_df) = 2
    /\ \E h \in Hotels : HasAverage(h)
    /\ graph.WROTE # EmptyBag /\ graph.NEEDS_VISA # EmptyBag

(***************************************************************************)
(* C8: nothing is removed                                                  *)
(***************************************************************************)
NodeLabels == {"Traveller", "Hotel", "Review", "City", "Country"}
RelTypes == {"LOCATED_IN", "FROM_COUNTRY", "WROTE", "REVIEWED", "STAYED_AT",
             "NEEDS_VISA"}

NodesKept ==
    \A label \in NodeLabels : DOMAIN graph[label] \subseteq DOMAIN graph'[label]

EdgesKept ==
    \A type \in RelTypes : \A e \in DOMAIN graph[type] :
        EdgeCount(graph', type, e[1], e[2]) >= EdgeCount(graph, type, e[1], e[2])

\* C8: no step of any run, on the same or on changed tables, removes a node
\* or an edge; a NEEDS_VISA edge outlives a later run whose row for the pair
\* has a false flag.
C8_NothingRemoved == [][NodesKept /\ EdgesKept]_vars

\* a later run loaded a visa table whose only row for France -> Egypt says No,
\* and the edge of the earlier run is there
C8_Witness ==
    /\ run = 2 /\ Completed("load_visa_edges")
    /\ \E i \in 1..Len(visa_df) :
          visa_df[i].from = "France" /\ visa_df[i].requires_visa = No
    /\ \A i \in 1..Len(visa_df) : visa_df[i].requires_visa # Yes
    /\ HasEdge("NEEDS_VISA", Node("Country", "France"), Node("Country", "Egypt"))

(***************************************************************************)
(* C3: NEEDS_VISA edges                                                    *)
(***************************************************************************)
VisaEdges(row) ==
    {e \in DOMAIN graph.NEEDS_VISA :
        e[1] = Node("Country", row.from) /\ e[2] = Node("Country", row.to)}

VisaEdgeCount(row) ==
    EdgeCount(graph, "NEEDS_VISA", Node("Country", row.from), Node("Country", row.to))

SamePair(r1, r2) == r1.from = r2.from /\ r1.to = r2.to

\* some row of the table for the pair of the row says Yes
PairRequired(row) ==
    \E j \in 1..Len(visa_df) :
        SamePair(visa_df[j], row) /\ visa_df[j].requires_visa = Yes

\* the visa_type of the last row for the pair of the row that says Yes
LastRequiredType(row) ==
    LET j == CHOOSE j \in 1..Len(visa_df) :
                /\ SamePair(visa_df[j], row) /\ visa_df[j].requires_visa = Yes
                /\ \A k \in (j + 1)..Len(visa_df) :
                      ~(SamePair(visa_df[k], row) /\ visa_df[k].requires_visa = Yes)
    IN visa_df[j].visa_type

\* C3 as stated: after load_visa_edges a row that says Yes has exactly one
\* NEEDS_VISA edge between its countries, carrying its visa_type, whatever the
\* country names; a falsy row gives no edge.
C3_EveryRow ==
    Completed("load_visa_edges") =>
        \A i \in 1..Len(visa_df) :
            LET row == visa_df[i]
            IN IF row.requires_visa = Yes
               THEN /\ VisaEdgeCount(row) = 1
                    /\ \A e \in VisaEdges(row) : e[3].visa_type = row.visa_type
               ELSE (run = 1 /\ ~PairRequired(row)) => VisaEdgeCount(row) = 0

\* C3 amended: after load_visa_edges, a pair of countries named by a visa row
\* has no NEEDS_VISA edge when either name is not a Country node; when both
\* are and some row for the pair says Yes it has exactly one edge, carrying
\* the visa_type of the last such row; when no row for the pair says Yes the
\* step has added no edge, so a first run leaves none.
C3_RowsOfKnownCountries ==
    Completed("load_visa_edges") =>
        \A i \in 1..Len(visa_df) :
            LET row == visa_df[i]
            IN IF row.from \notin DOMAIN graph.Country
                    \/ row.to \notin DOMAIN graph.Country
               THEN VisaEdgeCount(row) = 0
               ELSE IF PairRequired(row)
               THEN /\ VisaEdgeCount(row) = 1
                    /\ \A e \in VisaEdges(row) :
                          e[3].visa_type = LastRequiredType(row)
               ELSE run = 1 => VisaEdgeCount(row) = 0

\* a Yes row of an unknown country, and a pair with two Yes rows of
\* different visa types whose edge carries the later one
C3_Witness ==
    /\ Completed("load_visa_edges")
    /\ \/ /\ Len(visa_df) = 2
          /\ SamePair(visa_df[1], visa_df[2])
          /\ visa_df[1].requires_visa = Yes /\ visa_df[2].requires_visa = Yes
          /\ visa_df[1].visa_type # visa_df[2].visa_type
          /\ \E e \in VisaEdges(visa_df[2]) : e[3].visa_type = visa_df[2].visa_type
       \/ /\ Len(visa_df) = 2
          /\ visa_df[1].from = "Chad" /\ visa_df[1].requires_visa = Yes
          /\ visa_df[2].from = "France" /\ visa_df[2].requires_visa = No
          /\ VisaEdgeCount(visa_df[1]) = 0

(***************************************************************************)
(* C9: failure of a step                                                   *)
(***************************************************************************)
C9_Calls ==
    /\ Len(trace) <= Len(StepOrder)
    /\ \A i \in 1..Len(trace) :
          /\ trace[i].call = StepOrder[i]
          /\ trace[i].raised => (i = Len(trace) /\ pc = "failed" /\ ~printed)
    /\ printed =>
          /\ pc = "done"
          /\ Len(trace) = Len(StepOrder)
          /\ \A i \in 1..Len(trace) : ~trace[i].raised

C9_Aborted == pc = "failed" => (run' = run + 1 /\ graph' = graph)

\* C9: the calls of an invocation are the seven steps in their order, each at
\* most once; a call that raised is the last one and no message is printed;
\* the message is printed only after all seven returned; after a failure
\* nothing happens but a new invocation.
C9_FailureAborts == [](C9_Calls) /\ [][C9_Aborted]_vars

\* load_hotels raised after load_travellers was committed
C9_Witness ==
    /\ pc = "failed"
    /\ Len(trace) = 3 /\ trace[3].raised
    /\ graph.Traveller # EmptyProps /\ graph.Hotel = EmptyProps

(***************************************************************************)
(* C7: to_bool                                                             *)
(***************************************************************************)
Capital(c) ==
    CASE c = "y" -> "Y" [] c = "e" -> "E" [] c = "s" -> "S" [] c = "t" -> "T"
      [] c = "r" -> "R" [] c = "u" -> "U" [] OTHER -> c

TrueWords == {<<"y", "e", "s">>, <<"t", "r", "u", "e">>, <<"1">>, <<"y">>}

\* s is one of the four words in some letter case
IsTrueWord(s) ==
    \E w \in TrueWords :
        /\ Len(s) = Len(w)
        /\ \A i \in 1..Len(w) : s[i] = w[i] \/ s[i] = Capital(w[i])

\* C7 as stated: to_bool is true of "Yes", "TRUE", "1", "y" in any letter case
\* and false of a missing value and of every other string.
C7_OnlyTheFourWords ==
    (pc = "returned" /\ x.kind \in {"str", "nan"}) =>
        result = (x.kind = "str" /\ IsTrueWord(x.val))

Blank(c) == c \in {" ", "\t", "\n", "\r"}

\* s is one of the four words between leading and trailing white space
IsPaddedTrueWord(s) ==
    \E i, j \in 1..Len(s) :
        /\ \A k \in 1..(i - 1) : Blank(s[k])
        /\ \A k \in (j + 1)..Len(s) : Blank(s[k])
        /\ IsTrueWord(SubSeq(s, i, j))

\* C7 amended: to_bool is true of the strings that are "yes", "true", "1" or
\* "y" in any letter case once leading and trailing white space is removed,
\* and false of a missing value and of every other string.
C7_PaddedWords ==
    (pc = "returned" /\ x.kind \in {"str", "nan"}) =>
        result = (x.kind = "str" /\ IsPaddedTrueWord(x.val))

\* a padded word in mixed case is true
C7_Witness ==
    /\ pc = "returned"
    /\ x = StrCell(<<" ", "Y", "e", "s">>)
    /\ result = TRUE

====
